---- MODULE Spec2Model ----
(***************************************************************************)
(* market-sentiment-check.py: the dated record store (write_log_csv), the  *)
(* sentiment normaliser (clean_sentiment) and the staleness gate of main.  *)
(*                                                                         *)
(* A Python str on which the code performs character operations (the       *)
(* classifier's raw response) is a sequence of character chunks; the       *)
(* other strings are TLA+ strings.                                         *)
(***************************************************************************)
EXTENDS Integers, Sequences, FiniteSets, TLC

\* ------------------------------------------------------------------ bounds
\* Number of calendar days the clock and the article dates range over.
MaxDay == 3
\* Number of write_log_csv calls in one behaviour of SpecStore.
MaxCalls == 4
\* Length, in chunks, of the strings clean_sentiment is applied to.
MaxLen == 3

\* Number of fetches a behaviour may perform (main itself performs at most
\* two; the guard only keeps a faulty retry loop finite).
MaxFetches == 3

\* time.sleep arguments of main
SleepAfterExtractionFailure == 10
SleepAfterStale == 300

VARIABLES
    file,            \* the persisted table market_sentiment.csv: [exists, data]
    calls,           \* history: the records passed to write_log_csv (SpecStore)
    io,              \* per invocation of write_log_csv run step by step: its
                     \* position, its record, the file it read, its rows
    io_log,          \* history: the reads and writes of those invocations
    cs_raw,          \* SpecClean: the argument of clean_sentiment
    cs_result,       \* SpecClean: what clean_sentiment returned or raised
    now,             \* the system clock's date, as a day of the calendar
    USE_MODEL,       \* configuration: "openai" or "anthropic"
    pc,              \* main's position
    retry,           \* main's parameter
    html,            \* main's locals, as named in the source
    article,
    publish_date,
    raw_publish_str,
    today_str,
    sentiment_raw,
    model_version,
    sentiment,
    article_hash,
    sleep_for,       \* argument of the pending time.sleep
    fetches,         \* history: number of fetch_article calls
    slept,           \* history: the time.sleep calls made, in order
    attempts,        \* history: per attempt, the page, the extracted and the system date
    classifier_calls,\* history: number of get_sentiment calls
    classifier_raised, \* history: the provider call raised
    write_calls,     \* history: number of write_log_csv calls
    notify_result,   \* history: how send_push_notification ended
    outcome,         \* history: the gate's terminal state
    file0            \* history: the table when the invocation started

storeVars == <<calls, io, io_log>>
cleanVars == <<cs_raw, cs_result>>
localVars ==
    <<html, article, publish_date, raw_publish_str, today_str, sentiment_raw,
      model_version, sentiment, article_hash>>
histVars ==
    <<fetches, slept, attempts, classifier_calls, classifier_raised,
      write_calls, notify_result, outcome, file0>>
mainVars == <<now, USE_MODEL, pc, retry, sleep_for, localVars, histVars>>
vars == <<file, storeVars, cleanVars, mainVars>>

\* ------------------------------------------------------------------ dates
\* The calendar: day n of the model, starting 29 April 2025 and crossing
\* the month boundary.
Date(n) ==
    IF n <= 2 THEN [year |-> 2025, month |-> 4, day |-> 28 + n]
              ELSE [year |-> 2025, month |-> 5, day |-> n - 2]

Pad2(n) == IF n < 10 THEN "0" \o ToString(n) ELSE ToString(n)

\* strftime("%Y-%m-%d")
strftime(d) == ToString(d.year) \o "-" \o Pad2(d.month) \o "-" \o Pad2(d.day)

Days == 1..MaxDay
DateKeys == {strftime(Date(n)) : n \in Days}

\* ------------------------------------------------------------- csv module
\* The file's contents are the cells csv.writer emitted, each row closed by
\* its line terminator.
EOL == [kind |-> "eol"]
Field(v) == [kind |-> "field", v |-> v]

RECURSIVE csv_writerows(_)
csv_writerows(rows) ==
    IF rows = <<>> THEN <<>>
    ELSE [i \in 1..Len(Head(rows)) |-> Field(Head(rows)[i])] \o <<EOL>>
         \o csv_writerows(Tail(rows))

RECURSIVE csv_reader_from(_, _)
csv_reader_from(data, cur) ==
    IF data = <<>> THEN (IF cur = <<>> THEN <<>> ELSE <<cur>>)
    ELSE IF Head(data).kind = "eol"
         THEN <<cur>> \o csv_reader_from(Tail(data), <<>>)
         ELSE csv_reader_from(Tail(data), Append(cur, Head(data).v))

\* list(csv.reader(file))
csv_reader(data) == csv_reader_from(data, <<>>)

\* ---------------------------------------------------------- write_log_csv
NoFile == [exists |-> FALSE, data |-> <<>>]
EmptyFile == [exists |-> TRUE, data |-> <<>>]

header ==
    <<"today_date", "raw_publish_date", "sentiment", "model", "model_version",
      "article_hash", <<"raw_response">>>>

\* rows = [] unless the file exists, then every row of it
read_rows(f) == IF f.exists THEN csv_reader(f.data) ELSE <<>>

\* The for loop: index of the first row with row and row[0] == today, 0 if
\* the loop ends without a break.
match_index(rows, today) ==
    LET hits == {i \in 1..Len(rows) : rows[i] # <<>> /\ rows[i][1] = today}
    IN IF hits = {} THEN 0 ELSE CHOOSE i \in hits : \A j \in hits : i <= j

\* Faulty variants of update_rows: no scan for the key; the updated flag
\* never set; the replaced row moved to the end; a new row put first.
update_rows_never_match(rows, log_row) ==
    IF rows = <<>> THEN <<header, log_row>> ELSE Append(rows, log_row)

update_rows_flag_unset(rows, log_row) ==
    LET i == match_index(rows, log_row[1])
        rows1 == IF i # 0 THEN [rows EXCEPT ![i] = log_row] ELSE rows
    IN IF rows1 = <<>> THEN <<header, log_row>> ELSE Append(rows1, log_row)

update_rows_move_to_end(rows, log_row) ==
    LET i == match_index(rows, log_row[1])
    IN IF i # 0
       THEN Append(SubSeq(rows, 1, i - 1) \o SubSeq(rows, i + 1, Len(rows)), log_row)
       ELSE IF rows = <<>> THEN <<header, log_row>> ELSE Append(rows, log_row)

update_rows_insert_first(rows, log_row) ==
    LET i == match_index(rows, log_row[1])
    IN IF i # 0 THEN [rows EXCEPT ![i] = log_row]
       ELSE IF rows = <<>> THEN <<header, log_row>>
       ELSE <<Head(rows), log_row>> \o Tail(rows)

\* Faulty variant of update_rows: the header is put before every new row,
\* not only into a table without rows.
update_rows_header_each_time(rows, log_row) ==
    LET i == match_index(rows, log_row[1])
    IN IF i # 0 THEN [rows EXCEPT ![i] = log_row]
       ELSE rows \o <<header, log_row>>

\* Replace the matching row in place, else append (after the header when
\* the table had no row at all).
update_rows(rows, log_row) ==
    LET i == match_index(rows, log_row[1])
    IN IF i # 0 THEN [rows EXCEPT ![i] = log_row]
       ELSE IF rows = <<>> THEN <<header, log_row>>
       ELSE Append(rows, log_row)

\* The file after write_log_csv(today, ..., raw_response) on file f.
write_log_csv(f, today, raw_publish, label, model_used, version, digest, raw_response) ==
    LET rows == read_rows(f)
        log_row == <<today, raw_publish, label, model_used, version, digest,
                     raw_response>>
    IN [exists |-> TRUE, data |-> csv_writerows(update_rows(rows, log_row))]

\* -------------------------------------------------------- clean_sentiment
IsSpace(c) == c \in {" ", "\n"}

RECURSIVE lstrip(_)
lstrip(s) ==
    IF s = <<>> THEN s
    ELSE IF IsSpace(Head(s)) THEN lstrip(Tail(s)) ELSE s

RECURSIVE rstrip_space(_)
rstrip_space(s) ==
    IF s = <<>> THEN s
    ELSE IF IsSpace(s[Len(s)]) THEN rstrip_space(SubSeq(s, 1, Len(s) - 1)) ELSE s

\* str.strip()
strip(s) == rstrip_space(lstrip(s))

RECURSIVE split_from(_, _)
split_from(s, cur) ==
    IF s = <<>> THEN (IF cur = <<>> THEN <<>> ELSE <<cur>>)
    ELSE IF IsSpace(Head(s))
         THEN (IF cur = <<>> THEN <<>> ELSE <<cur>>) \o split_from(Tail(s), <<>>)
         ELSE split_from(Tail(s), Append(cur, Head(s)))

\* str.split(): the maximal runs of non-whitespace
split(s) == split_from(s, <<>>)

lower_chunk(c) ==
    CASE c = "Bullish" -> "bullish"
      [] c = "BEARISH" -> "bearish"
      [] c = "Mixed" -> "mixed"
      [] OTHER -> c

\* str.lower()
lower(s) == [i \in 1..Len(s) |-> lower_chunk(s[i])]

\* str.rstrip(chars)
RECURSIVE rstrip(_, _)
rstrip(s, chars) ==
    IF s = <<>> THEN s
    ELSE IF s[Len(s)] \in chars THEN rstrip(SubSeq(s, 1, Len(s) - 1), chars) ELSE s

\* str.capitalize() of a one-chunk lower-case word
capitalize(word) ==
    CASE word = <<"bullish">> -> "Bullish"
      [] word = <<"bearish">> -> "Bearish"
      [] word = <<"mixed">> -> "Mixed"

\* What clean_sentiment yields when split() returns no word: [0] raises.
IndexError == "IndexError"

\* raw.strip().split()[0].lower().rstrip(".") for a non-empty word list
first_word_of(words) == rstrip(lower(words[1]), {"."})

clean_sentiment(raw) ==
    LET words == split(strip(raw))
    IN IF words = <<>> THEN IndexError
       ELSE LET first_word == first_word_of(words)
            IN IF first_word \in {<<"bullish">>, <<"bearish">>, <<"mixed">>}
               THEN capitalize(first_word)
               ELSE "Undetermined"

\* ------------------------------------------------------------- the article
MonthName(m) == CASE m = 4 -> "April" [] m = 5 -> "May"
Months == [April |-> [num |-> 4, days |-> 30], May |-> [num |-> 5, days |-> 31]]

\* The page as published on day n: "Published as of: <Month> <d>, <yyyy>,
\* 9:15 a.m. ET" and that day's paragraphs.
Page(n) ==
    [marker |-> TRUE, shaped |-> TRUE, month |-> MonthName(Date(n).month),
     day |-> Date(n).day, year |-> Date(n).year, rest |-> ", 9:15 a.m. ET",
     body |-> "article of day " \o ToString(n)]

\* No "Published as of:" in the page.
PageNoMarker ==
    [marker |-> FALSE, shaped |-> FALSE, month |-> "", day |-> 0, year |-> 0,
     rest |-> "", body |-> "page without marker"]

\* "Published as of: today": the marker, but not followed by a date.
PageNoDate ==
    [marker |-> TRUE, shaped |-> FALSE, month |-> "", day |-> 0, year |-> 0,
     rest |-> "today", body |-> "page without date"]

\* "Published as of: April 31, 2025": the regular expression matches and
\* strptime raises ValueError.
PageBadDate ==
    [marker |-> TRUE, shaped |-> TRUE, month |-> "April", day |-> 31,
     year |-> 2025, rest |-> "", body |-> "page with bad date"]

Pages == {Page(n) : n \in Days} \cup {PageNoMarker, PageNoDate, PageBadDate}

NoPage ==
    [marker |-> FALSE, shaped |-> FALSE, month |-> "", day |-> 0, year |-> 0,
     rest |-> "", body |-> ""]

\* extract_article_text
extract_article_text(h) == h.body

\* datetime.strptime(s, "%B %d, %Y") succeeds
strptime_ok(h) ==
    /\ h.month \in DOMAIN Months
    /\ h.day >= 1
    /\ h.day <= Months[h.month].days

\* Faulty variant of extract_ok: the ValueError of strptime is swallowed and
\* the unparsed date still returned.
extract_ok_unparsed(h) == h.marker /\ h.shaped

\* extract_publish_datetime returns (rather than raising ValueError)
extract_ok(h) == h.marker /\ h.shaped /\ strptime_ok(h)

\* short_dt.strftime("%Y-%m-%d") of the returned pair
extract_publish_date(h) ==
    strftime([year |-> h.year, month |-> Months[h.month].num, day |-> h.day])

\* full_date_match.group(1) of the returned pair
extract_raw_publish(h) ==
    h.month \o " " \o ToString(h.day) \o ", " \o ToString(h.year) \o h.rest

\* Faulty variant of get_article_hash: the digest of no text at all.
get_article_hash_of_nothing(text) == "md5()"

\* get_article_hash: a digest, a function of the text
get_article_hash(text) == "md5(" \o text \o ")"

\* The model name get_sentiment returns with the response
model_of(use_model) ==
    IF use_model = "openai" THEN "gpt-4" ELSE "claude-3-7-sonnet-20250219"

\* What the provider may answer, before get_sentiment's strip().
ProviderTexts ==
    { <<"Bullish", ".", " ", "x">>,
      <<"\n", "BEARISH">>,
      <<"Mixed", ",", " ", "x">>,
      <<"x", " ", "x">>,
      <<" ">> }

\* ------------------------------------------------------------------- main
\* Faulty variant of is_stale: every article counts as today's.
is_stale_never(today, publish) == FALSE

\* today_str != publish_date
is_stale(today, publish) == today # publish

\* Faulty variant of after_stale: the retry's return is missing and main
\* falls through to the classification.
after_stale_falls_through(r) == IF ~r THEN "sleep" ELSE "classify"

\* Where main goes from a stale article: if not retry, sleep and recurse,
\* else return.
after_stale(r) == IF ~r THEN "sleep" ELSE "done"

\* Faulty variants of after_extraction_failure: main gives up without the
\* retry; the retry's return is missing and main goes on to classify.
after_extraction_failure_no_retry(r) == "done"

after_extraction_failure_falls_through(r) == IF ~r THEN "sleep" ELSE "classify"

\* Where main goes from the ValueError of extract_publish_datetime.
after_extraction_failure(r) == IF ~r THEN "sleep" ELSE "done"

\* Faulty variant of recursive_retry: main() re-entered with the default.
recursive_retry_default == FALSE

\* The argument of the recursive call: main(retry=True)
recursive_retry == TRUE

\* main's locals before they are assigned
UnsetLocals ==
    /\ html = NoPage
    /\ article = ""
    /\ publish_date = ""
    /\ raw_publish_str = ""
    /\ today_str = ""
    /\ sentiment_raw = <<>>
    /\ model_version = ""
    /\ sentiment = ""
    /\ article_hash = ""

IdleMain ==
    /\ now = 1
    /\ USE_MODEL = "openai"
    /\ pc = "idle"
    /\ retry = FALSE
    /\ sleep_for = 0
    /\ UnsetLocals
    /\ fetches = 0
    /\ slept = <<>>
    /\ attempts = <<>>
    /\ classifier_calls = 0
    /\ classifier_raised = FALSE
    /\ write_calls = 0
    /\ notify_result = "none"
    /\ outcome = "none"
    /\ file0 = NoFile

IdleClean == cs_raw = <<>> /\ cs_result = "idle"

\* The invocations of write_log_csv that are run step by step.
Procs == {1, 2}
NotCalled == [pc |-> "off", rec |-> <<>>, before |-> NoFile, rows |-> <<>>]
IdleIo == io = [p \in Procs |-> NotCalled] /\ io_log = <<>>

\* The table after an earlier run of main on day n wrote its record.
PriorRun(f, n, use_model, text) ==
    write_log_csv(f, strftime(Date(n)), extract_raw_publish(Page(n)),
                  clean_sentiment(strip(text)), use_model, model_of(use_model),
                  get_article_hash(extract_article_text(Page(n))), strip(text))

TableDay1 == PriorRun(NoFile, 1, "openai", <<"Bullish", ".", " ", "x">>)
TableDay12 == PriorRun(TableDay1, 2, "anthropic", <<"x", " ", "x">>)

InitMain ==
    /\ file \in {NoFile, TableDay1, TableDay12}
    /\ file0 = file
    /\ calls = <<>>
    /\ IdleIo
    /\ IdleClean
    /\ now \in Days
    /\ USE_MODEL \in {"openai", "anthropic"}
    /\ pc = "fetch"
    /\ retry = FALSE
    /\ sleep_for = 0
    /\ UnsetLocals
    /\ fetches = 0
    /\ slept = <<>>
    /\ attempts = <<>>
    /\ classifier_calls = 0
    /\ classifier_raised = FALSE
    /\ write_calls = 0
    /\ notify_result = "none"
    /\ outcome = "none"

\* The system date changes at midnight, whatever main is doing.
Tick ==
    /\ pc \notin {"idle", "done", "crashed"}
    /\ now < MaxDay
    /\ now' = now + 1
    /\ UNCHANGED <<file, storeVars, cleanVars, USE_MODEL, pc, retry, sleep_for,
                   localVars, histVars>>

\* html = fetch_article(); article = extract_article_text(html)
Fetch ==
    /\ pc = "fetch"
    /\ fetches < MaxFetches
    /\ \E page \in Pages :
         /\ html' = page
         /\ article' = extract_article_text(page)
    /\ fetches' = fetches + 1
    /\ pc' = "extract"
    /\ UNCHANGED <<file, storeVars, cleanVars, now, USE_MODEL, retry, sleep_for,
                   publish_date, raw_publish_str, today_str, sentiment_raw,
                   model_version, sentiment, article_hash, slept, attempts,
                   classifier_calls, classifier_raised, write_calls,
                   notify_result, outcome, file0>>

\* The try block around extract_publish_datetime.
Extract ==
    /\ pc = "extract"
    /\ IF extract_ok(html)
       THEN /\ publish_date' = extract_publish_date(html)
            /\ raw_publish_str' = extract_raw_publish(html)
            /\ pc' = "gate"
            /\ UNCHANGED <<sleep_for, attempts, outcome>>
       ELSE /\ attempts' = Append(attempts, [publish |-> "ValueError", today |-> "",
                                          page |-> html])
            /\ pc' = after_extraction_failure(retry)
            /\ sleep_for' = IF ~retry THEN SleepAfterExtractionFailure ELSE sleep_for
            /\ outcome' = IF ~retry THEN outcome ELSE "ABORT"
            /\ UNCHANGED <<publish_date, raw_publish_str>>
    /\ UNCHANGED <<file, storeVars, cleanVars, now, USE_MODEL, retry, html,
                   article, today_str, sentiment_raw, model_version, sentiment,
                   article_hash, fetches, slept, classifier_calls,
                   classifier_raised, write_calls, notify_result, file0>>

\* today_str = datetime.now()...; if today_str != publish_date: ...
Gate ==
    /\ pc = "gate"
    /\ today_str' = strftime(Date(now))
    /\ attempts' = Append(attempts, [publish |-> publish_date, today |-> today_str',
                                  page |-> html])
    /\ IF is_stale(today_str', publish_date)
       THEN /\ pc' = after_stale(retry)
            /\ sleep_for' = IF ~retry THEN SleepAfterStale ELSE sleep_for
            /\ outcome' = CASE pc' = "done" -> "ABORT"
                            [] pc' = "classify" -> "CLASSIFY"
                            [] OTHER -> outcome
       ELSE /\ pc' = "classify"
            /\ outcome' = "CLASSIFY"
            /\ UNCHANGED sleep_for
    /\ UNCHANGED <<file, storeVars, cleanVars, now, USE_MODEL, retry, html,
                   article, publish_date, raw_publish_str, sentiment_raw,
                   model_version, sentiment, article_hash, fetches, slept,
                   classifier_calls, classifier_raised, write_calls,
                   notify_result, file0>>

\* time.sleep(...); return main(retry=True): a new frame of main
Sleep ==
    /\ pc = "sleep"
    /\ slept' = Append(slept, sleep_for)
    /\ retry' = recursive_retry
    /\ pc' = "fetch"
    /\ sleep_for' = 0
    /\ html' = NoPage
    /\ article' = ""
    /\ publish_date' = ""
    /\ raw_publish_str' = ""
    /\ today_str' = ""
    /\ UNCHANGED <<file, storeVars, cleanVars, now, USE_MODEL, sentiment_raw,
                   model_version, sentiment, article_hash, fetches, attempts,
                   classifier_calls, classifier_raised, write_calls,
                   notify_result, outcome, file0>>

\* sentiment_raw, model_version = get_sentiment(article): the provider
\* answers, or its client raises and nothing in main catches it.
Classify ==
    /\ pc = "classify"
    /\ classifier_calls' = classifier_calls + 1
    /\ \/ /\ \E text \in ProviderTexts : sentiment_raw' = strip(text)
          /\ model_version' = model_of(USE_MODEL)
          /\ pc' = "normalize"
          /\ UNCHANGED classifier_raised
       \/ /\ classifier_raised' = TRUE
          /\ pc' = "crashed"
          /\ UNCHANGED <<sentiment_raw, model_version>>
    /\ UNCHANGED <<file, storeVars, cleanVars, now, USE_MODEL, retry, sleep_for,
                   html, article, publish_date, raw_publish_str, today_str,
                   sentiment, article_hash, fetches, slept, attempts,
                   write_calls, notify_result, outcome, file0>>

\* sentiment = clean_sentiment(sentiment_raw); article_hash = ...
Normalize ==
    /\ pc = "normalize"
    /\ IF clean_sentiment(sentiment_raw) = IndexError
       THEN /\ pc' = "crashed"
            /\ UNCHANGED <<sentiment, article_hash>>
       ELSE /\ sentiment' = clean_sentiment(sentiment_raw)
            /\ article_hash' = get_article_hash(article)
            /\ pc' = "write"
    /\ UNCHANGED <<file, storeVars, cleanVars, now, USE_MODEL, retry, sleep_for,
                   html, article, publish_date, raw_publish_str, today_str,
                   sentiment_raw, model_version, fetches, slept, attempts,
                   classifier_calls, classifier_raised, write_calls,
                   notify_result, outcome, file0>>

\* write_log_csv(today_str, raw_publish_str, sentiment, USE_MODEL, ...)
Write ==
    /\ pc = "write"
    /\ file' = write_log_csv(file, today_str, raw_publish_str, sentiment,
                             USE_MODEL, model_version, article_hash, sentiment_raw)
    /\ write_calls' = write_calls + 1
    /\ pc' = "notify"
    /\ UNCHANGED <<storeVars, cleanVars, now, USE_MODEL, retry, sleep_for,
                   localVars, fetches, slept, attempts, classifier_calls,
                   classifier_raised, notify_result, outcome, file0>>

\* send_push_notification(push_message): skipped without credentials, else
\* one POST that is answered 200, answered otherwise, or raises.
Notify ==
    /\ pc = "notify"
    /\ \E res \in {"skipped", "sent", "rejected", "raised"} :
         /\ notify_result' = res
         /\ pc' = IF res = "raised" THEN "crashed" ELSE "done"
    /\ UNCHANGED <<file, storeVars, cleanVars, now, USE_MODEL, retry, sleep_for,
                   localVars, fetches, slept, attempts, classifier_calls,
                   classifier_raised, write_calls, outcome, file0>>

\* The process's exit status once main has ended: 0 when main returns, 1
\* when an exception leaves it.
exit_status == IF pc = "crashed" THEN 1 ELSE 0

\* main up to the gate's decision, and main after it
GateSteps == Fetch \/ Extract \/ Gate \/ Sleep
RecordSteps == Classify \/ Normalize \/ Write \/ Notify

NextMain == Tick \/ GateSteps \/ RecordSteps

SpecMain == InitMain /\ [][NextMain]_vars

\* main is a single thread that runs on: fetch_article, the extraction and
\* the comparison return, and time.sleep returns.
FairMain == SpecMain /\ WF_vars(GateSteps)

\* ------------------------------------------------- SpecStore: upserts only
\* Record contents other than the key: two different payloads.
Payloads ==
    { <<"April 29, 2025, 9:15 a.m. ET", "Bullish", "openai", "gpt-4", "h1",
        <<"Bullish", ".", " ", "x">>>>,
      <<"April 30, 2025", "Undetermined", "anthropic",
        "claude-3-7-sonnet-20250219", "h2", <<"x">>>> }

Records == {<<k>> \o p : k \in DateKeys, p \in Payloads}

InitStore ==
    /\ file \in {NoFile, EmptyFile}
    /\ calls = <<>>
    /\ IdleIo
    /\ IdleClean
    /\ IdleMain

Upsert(r) ==
    /\ Len(calls) < MaxCalls
    /\ file' = write_log_csv(file, r[1], r[2], r[3], r[4], r[5], r[6], r[7])
    /\ calls' = Append(calls, r)
    /\ UNCHANGED <<io, io_log, cleanVars, mainVars>>

NextStore == \E r \in Records : Upsert(r)

SpecStore == InitStore /\ [][NextStore]_vars

\* --------------------------------------- SpecClean: clean_sentiment alone
Chunks == {"Bullish", "BEARISH", "Mixed", "bullish", "x", " ", "\n", ".", ","}

RECURSIVE StringsUpTo(_)
StringsUpTo(n) ==
    IF n = 0 THEN {<<>>}
    ELSE LET shorter == StringsUpTo(n - 1)
         IN shorter \cup {Append(s, c) : s \in shorter, c \in Chunks}

InitClean ==
    /\ cs_raw \in StringsUpTo(MaxLen)
    /\ cs_result = "pending"
    /\ file = NoFile
    /\ calls = <<>>
    /\ IdleIo
    /\ IdleMain

Clean ==
    /\ cs_result = "pending"
    /\ cs_result' = clean_sentiment(cs_raw)
    /\ UNCHANGED <<file, storeVars, cs_raw, mainVars>>

NextClean == Clean

SpecClean == InitClean /\ [][NextClean]_vars

\* ------------------------- SpecIo, SpecConc: write_log_csv step by step
\* rows after the file was read and the for loop and the append have run
rows_in_memory(f, log_row) == update_rows(read_rows(f), log_row)

\* Faulty variant of written_data: the file is opened in append mode.
written_data_appended(f, rows) == f.data \o csv_writerows(rows)

\* The file's contents after open(filename, "w") and writerows(rows): the
\* prior contents are gone.
written_data(f, rows) == csv_writerows(rows)

IoVarsUnchanged == UNCHANGED <<calls, cleanVars, mainVars>>

\* file_exists = os.path.isfile(...); rows = list(csv.reader(file)); the
\* scan and the append, in memory
IoRead(p) ==
    /\ io[p].pc = "read"
    /\ io' = [io EXCEPT ![p] = [pc |-> "write", rec |-> @.rec, before |-> file,
                                rows |-> rows_in_memory(file, @.rec)]]
    /\ io_log' = Append(io_log, <<p, "read">>)
    /\ UNCHANGED file
    /\ IoVarsUnchanged

\* open(filename, mode="r") or the read raises: write_log_csv ends there.
IoReadFail(p) ==
    /\ io[p].pc = "read"
    /\ file.exists
    /\ io' = [io EXCEPT ![p].pc = "failed", ![p].before = file]
    /\ UNCHANGED <<file, io_log>>
    /\ IoVarsUnchanged

\* with open(filename, mode="w") ...: csv.writer(file).writerows(rows)
IoWrite(p) ==
    /\ io[p].pc = "write"
    /\ file' = [exists |-> TRUE, data |-> written_data(file, io[p].rows)]
    /\ io' = [io EXCEPT ![p].pc = "done"]
    /\ io_log' = Append(io_log, <<p, "write">>)
    /\ IoVarsUnchanged

\* The write raises: either open(filename, mode="w") fails and the file is
\* as it was, or the file has been truncated and writing stops after some
\* of the cells.
IoWriteFail(p) ==
    /\ io[p].pc = "write"
    /\ \/ UNCHANGED file
       \/ \E k \in 0..(Len(written_data(file, io[p].rows)) - 1) :
            file' = [exists |-> TRUE,
                     data |-> SubSeq(written_data(file, io[p].rows), 1, k)]
    /\ io' = [io EXCEPT ![p].pc = "failed"]
    /\ UNCHANGED io_log
    /\ IoVarsUnchanged

Called(r) == [pc |-> "read", rec |-> r, before |-> NoFile, rows |-> <<>>]

\* One call of write_log_csv, on a missing, an empty or a filled table.
InitIo ==
    /\ file \in {NoFile, EmptyFile, TableDay1, TableDay12}
    /\ \E r \in Records : io = [p \in Procs |-> IF p = 1 THEN Called(r) ELSE NotCalled]
    /\ io_log = <<>>
    /\ calls = <<>>
    /\ IdleClean
    /\ IdleMain

NextIo == IoRead(1) \/ IoReadFail(1) \/ IoWrite(1) \/ IoWriteFail(1)

SpecIo == InitIo /\ [][NextIo]_vars

\* Two invocations of the job at once, each in its write_log_csv with its
\* own dateKey, on the same file.
InitConc ==
    /\ file \in {NoFile, TableDay1, TableDay12}
    /\ \E r1, r2 \in Records :
         /\ r1[1] # r2[1]
         /\ io = [p \in Procs |-> IF p = 1 THEN Called(r1) ELSE Called(r2)]
    /\ io_log = <<>>
    /\ calls = <<>>
    /\ IdleClean
    /\ IdleMain

NextConc == \E p \in Procs : IoRead(p) \/ IoWrite(p)

SpecConc == InitConc /\ [][NextConc]_vars

\* ------------------------------------------------------------ observations
\* The rows of the persisted table, and its data rows (all but the header).
Rows == read_rows(file)
DataRows == SelectSeq(Rows, LAMBDA row : row # header)
KeysOf(rows) == [i \in 1..Len(rows) |-> rows[i][1]]

IsDistinct(seq) == \A i, j \in 1..Len(seq) : i # j => seq[i] # seq[j]
LastCall == calls[Len(calls)]

\* ------------------------------------------------------------------ claims
\* C1: starting from a missing or empty table, after any sequence of
\* write_log_csv calls the persisted table holds at most one data row per
\* dateKey.
C1_AtMostOneRowPerKey == IsDistinct(KeysOf(DataRows))

\* A key was upserted twice with different contents, among other keys.
C1_Witness ==
    /\ Len(DataRows) >= 2
    /\ \E i, j \in 1..Len(calls) :
         i < j /\ calls[i][1] = calls[j][1] /\ calls[i] # calls[j]

\* C2: write_log_csv called twice in a row with the identical record leaves
\* the table after the second call equal to the table after the first, with
\* exactly one row for that dateKey.
C2_Idempotent ==
    [][(calls # <<>> /\ calls' = Append(calls, LastCall))
       => /\ file' = file
          /\ Cardinality({i \in 1..Len(read_rows(file')) :
                            read_rows(file')[i][1] = LastCall[1]}) = 1]_vars

\* The last two calls passed the same record, and the table holds other rows.
C2_Witness ==
    /\ Len(calls) >= 2
    /\ calls[Len(calls) - 1] = LastCall
    /\ Len(DataRows) >= 2
    /\ Cardinality({i \in 1..Len(Rows) : Rows[i][1] = LastCall[1]}) = 1

\* C3: a write_log_csv call whose dateKey already has a row replaces that
\* row by the new record at the same position; the row count is unchanged
\* and every other row, the header included, keeps content and position.
C3_ReplaceInPlace ==
    [][LET r == calls'[Len(calls')]
           i == match_index(Rows, r[1])
           after == read_rows(file')
       IN (calls' # calls /\ i # 0)
          => /\ Len(after) = Len(Rows)
             /\ after[i] = r
             /\ \A j \in 1..Len(Rows) : j # i => after[j] = Rows[j]]_vars

\* The last call replaced, by a different record, a row that other rows
\* follow.
C3_Witness ==
    /\ Len(calls) >= 3
    /\ LastCall[1] = calls[1][1]
    /\ LastCall # calls[1]
    /\ \A i \in 2..(Len(calls) - 1) : calls[i][1] # calls[1][1]
    /\ Len(Rows) >= 3
    /\ Rows[1] = header
    /\ Rows[2] = LastCall

\* C4: after upserts with pairwise distinct dateKeys into an empty table,
\* there are as many data rows as keys, in the order the keys were upserted.
C4_DistinctKeysKeepOrder ==
    IsDistinct(KeysOf(calls))
    => /\ Len(DataRows) = Len(calls)
       /\ KeysOf(DataRows) = KeysOf(calls)

\* Three distinct keys were upserted, not in calendar order.
C4_Witness ==
    /\ Len(calls) = 3
    /\ IsDistinct(KeysOf(calls))
    /\ KeysOf(calls) = <<strftime(Date(2)), strftime(Date(3)), strftime(Date(1))>>
    /\ Len(DataRows) = 3

\* An attempt whose date was extracted and differs from the system date.
StaleAttempt(a) == a.publish # "ValueError" /\ a.publish # a.today

\* C5: when the extracted dateKey differs from the system date on the first
\* and again on the second attempt, the invocation ends in ABORT: the
\* classifier is never called, write_log_csv is never called and the table
\* is what it was before the invocation.
C5_StaleTwiceAborts ==
    (Len(attempts) = 2 /\ StaleAttempt(attempts[1]) /\ StaleAttempt(attempts[2]))
    => /\ pc = "done"
       /\ outcome = "ABORT"
       /\ classifier_calls = 0
       /\ write_calls = 0
       /\ file = file0

\* Two stale attempts on two different pages, over a table with rows.
C5_Witness ==
    /\ Len(attempts) = 2
    /\ StaleAttempt(attempts[1])
    /\ StaleAttempt(attempts[2])
    /\ attempts[1].publish # attempts[2].publish
    /\ file0 = TableDay12
    /\ outcome = "ABORT"

\* C6: the gate passes to the classification if and only if the extracted
\* dateKey equals the system's current date; when it does so on the first
\* attempt, there has been exactly one fetch and no wait.
C6_FreshIffToday ==
    [][(pc = "gate" /\ pc' # "gate")
       => /\ (pc' = "classify" /\ outcome' = "CLASSIFY")
             <=> (publish_date = strftime(Date(now)))
          /\ (pc' = "classify" /\ attempts = <<>>)
             => (fetches = 1 /\ slept = <<>>)]_vars

\* The first attempt passed the gate, on a day other than the first.
C6_Witness ==
    /\ pc = "classify"
    /\ outcome = "CLASSIFY"
    /\ Len(attempts) = 1
    /\ attempts[1].publish = attempts[1].today
    /\ now > 1
    /\ fetches = 1
    /\ slept = <<>>

\* C7: every invocation of main reaches CLASSIFY or ABORT after at most one
\* retry: at most two fetches and at most one wait, whatever the first and
\* second attempts find (stale, fresh or no date).
C7_BoundedRetry ==
    /\ [](fetches <= 2 /\ Len(slept) <= 1)
    /\ <>(outcome \in {"CLASSIFY", "ABORT"})

\* No date on the first attempt, a stale one on the second: ABORT after two
\* fetches and one wait.
C7_Witness ==
    /\ outcome = "ABORT"
    /\ fetches = 2
    /\ Len(slept) = 1
    /\ Len(attempts) = 2
    /\ attempts[1].publish = "ValueError"
    /\ StaleAttempt(attempts[2])

Labels == {"Bullish", "Bearish", "Mixed", "Undetermined"}

\* C8: clean_sentiment is total: for every string, the empty and the
\* whitespace-only ones included, it returns one of Bullish, Bearish, Mixed,
\* Undetermined and never raises; the empty string yields Undetermined.
C8_CleanSentimentTotal ==
    (cs_result \notin {"idle", "pending"})
    => /\ cs_result \in Labels
       /\ cs_raw = <<>> => cs_result = "Undetermined"

Punctuation == {".", ","}

\* The label C9 describes: the first whitespace-delimited word, its trailing
\* punctuation stripped, lower-cased, mapped.
C9_Label(raw) ==
    LET word == rstrip(lower(split(raw)[1]), Punctuation)
    IN CASE word = <<"bullish">> -> "Bullish"
         [] word = <<"bearish">> -> "Bearish"
         [] word = <<"mixed">> -> "Mixed"
         [] OTHER -> "Undetermined"

\* C9: clean_sentiment returns the label of the first whitespace-delimited
\* token of the raw text after stripping its trailing punctuation (any
\* punctuation character) and lower-casing it; every other token gives
\* Undetermined.
C9_LabelOfFirstToken ==
    (cs_result \notin {"idle", "pending"} /\ split(cs_raw) # <<>>)
    => cs_result = C9_Label(cs_raw)

\* C10: when the provider call fails after the gate has passed, the run
\* still writes a record for today's dateKey with the label Undetermined.
C10_ClassifierFailureRecorded ==
    (classifier_raised /\ pc \in {"done", "crashed"})
    => /\ write_calls = 1
       /\ \E i \in 1..Len(Rows) :
            Rows[i][1] = today_str /\ Rows[i][3] = "Undetermined"

\* The pages on which the marker is absent or no parseable date follows it.
UnparseablePages == {PageNoMarker, PageNoDate, PageBadDate}
LastAttempt == attempts[Len(attempts)]

\* C11: when the publish-date marker is absent or no parseable date follows
\* it, extract_publish_datetime raises and returns no date; an attempt whose
\* date could not be extracted is never treated as fresh and no record is
\* written from it.
C11_ExtractionFailsLoudly ==
    /\ [][(pc = "extract" /\ pc' # "extract" /\ html \in UnparseablePages)
          => /\ pc' \in {"sleep", "done"}
             /\ publish_date' = ""
             /\ raw_publish_str' = ""
             /\ attempts' # attempts
             /\ attempts'[Len(attempts')].publish = "ValueError"
             /\ outcome' # "CLASSIFY"]_vars
    /\ [](html \in UnparseablePages
          => /\ pc \notin {"gate", "classify", "normalize", "write", "notify"}
             /\ outcome # "CLASSIFY"
             /\ write_calls = 0
             /\ file = file0)

\* The retry fetched a page whose date matches the pattern and does not
\* parse, over a table with rows: the run ended without a record.
C11_Witness ==
    /\ html = PageBadDate
    /\ Len(attempts) = 2
    /\ LastAttempt.publish = "ValueError"
    /\ pc = "done"
    /\ outcome = "ABORT"
    /\ file0 = TableDay1
    /\ file = file0

\* The first attempt could not extract the date.
FirstExtractionFailed == attempts # <<>> /\ attempts[1].publish = "ValueError"

\* What follows an extraction failure on the first attempt, whatever the
\* delay: one wait, one more fetch and extraction, and ABORT without a
\* record when the second attempt fails too.
RetryOnceThenAbort ==
    /\ pc = "sleep" \/ Len(slept) = 1
    /\ fetches <= 2
    /\ (Len(attempts) = 2 /\ attempts[2].publish = "ValueError")
       => /\ pc = "done"
          /\ outcome = "ABORT"
          /\ fetches = 2
          /\ write_calls = 0
          /\ file = file0

\* C12 as claimed: an extraction failure on the first attempt waits the same
\* fixed delay as staleness, a delay within 60 to 300 seconds, re-runs fetch
\* and extract once, and aborts without a record if the second attempt
\* fails too.
C12_SameDelayAsStale ==
    FirstExtractionFailed
    => /\ RetryOnceThenAbort
       /\ pc = "sleep" => (sleep_for = SleepAfterStale /\ sleep_for \in 60..300)
       /\ slept # <<>> => (slept[1] = SleepAfterStale /\ slept[1] \in 60..300)

\* C12 (amended): an extraction failure on the first attempt waits once, for
\* 10 seconds (staleness waits 300), re-runs fetch and extract exactly once,
\* and aborts without a record if the second attempt fails too.
C12_RetryAfterTenSeconds ==
    FirstExtractionFailed
    => /\ RetryOnceThenAbort
       /\ pc = "sleep" => sleep_for = 10
       /\ slept # <<>> => slept = <<10>>

\* Two attempts without a date, on two different pages, over a table with
\* rows.
C12_Witness ==
    /\ Len(attempts) = 2
    /\ attempts[1].publish = "ValueError"
    /\ attempts[2].publish = "ValueError"
    /\ attempts[1].page # attempts[2].page
    /\ slept = <<10>>
    /\ fetches = 2
    /\ outcome = "ABORT"
    /\ file0 = TableDay12

Ended == pc \in {"done", "crashed"}

\* C13: the exit status is 0 exactly when the run ended with a record
\* written or with a clean abort on a stale article; a run that ends because
\* the date could not be extracted even after the retry exits non-zero.
C13_ExitStatus ==
    Ended
    => /\ exit_status = 0
          <=> \/ write_calls = 1
              \/ outcome = "ABORT" /\ StaleAttempt(LastAttempt)
       /\ (outcome = "ABORT" /\ LastAttempt.publish = "ValueError")
          => exit_status # 0

\* The table holds the record this run wrote.
RecordIntact ==
    \E i \in 1..Len(Rows) :
      Rows[i] = <<today_str, raw_publish_str, sentiment, USE_MODEL,
                  model_version, article_hash, sentiment_raw>>

\* C14: a notifier failure of any kind (a response other than 200, or a POST
\* that fails) is never fatal and never retried: the run still ends
\* successfully, with the written record intact.
C14_NotifierNeverFatal ==
    notify_result \in {"rejected", "raised"}
    => /\ pc = "done"
       /\ exit_status = 0
       /\ write_calls = 1
       /\ RecordIntact

\* C15: if reading or writing the backing file fails at any point during
\* write_log_csv, the table is left in no partial state: it is the complete
\* table from before the call or the complete updated table.
C15_NoPartialTable ==
    io[1].pc = "failed"
    => \/ Rows = read_rows(io[1].before)
       \/ Rows = rows_in_memory(io[1].before, io[1].rec)

\* Position of an event in io_log, 0 when it has not happened.
At(p, what) ==
    IF \E i \in 1..Len(io_log) : io_log[i] = <<p, what>>
    THEN CHOOSE i \in 1..Len(io_log) : io_log[i] = <<p, what>>
    ELSE 0

BothDone == \A p \in Procs : io[p].pc = "done"
Lost(p) == \A i \in 1..Len(Rows) : Rows[i] # io[p].rec

\* C16: the store is not safe for concurrent invocations. Once two
\* interleaved write_log_csv calls with different dateKeys have completed,
\* the table lacks the record of one of them exactly when the other read
\* the table before that record was written and wrote after it.
C16_LostUpdate ==
    BothDone
    => \A p, q \in Procs :
         p # q => (Lost(p) <=> (At(q, "read") < At(p, "write")
                                /\ At(p, "write") < At(q, "write")))

\* Both calls have completed and the table lacks the first one's record,
\* among the rows it had before.
C16_Witness ==
    /\ BothDone
    /\ Lost(1)
    /\ ~Lost(2)
    /\ Len(Rows) >= 3

HeaderRows == {i \in 1..Len(Rows) : Rows[i] = header}

\* C17: starting from a missing or empty table, every non-empty persisted
\* table has the header as its first row and holds it exactly once: the
\* first upsert into the empty table creates it and no later upsert replaces
\* or repeats it.
C17_HeaderOnceAndFirst ==
    /\ calls = <<>> => Rows = <<>>
    /\ calls # <<>> => HeaderRows = {1}

\* After MaxCalls upserts, some of them replacing a row, the table has the
\* header and several data rows.
C17_Witness ==
    /\ Len(calls) = MaxCalls
    /\ ~IsDistinct(KeysOf(calls))
    /\ Len(DataRows) >= 2
    /\ HeaderRows = {1}

\* The first attempt was stale and the second found today's date.
StaleThenFresh ==
    /\ Len(attempts) = 2
    /\ StaleAttempt(attempts[1])
    /\ attempts[2].publish = attempts[2].today

\* C18: when the first attempt is stale and the second attempt yields the
\* system date, the run proceeds to the classification and upserts exactly
\* one record for that dateKey.
C18_RetryThenRecord ==
    StaleThenFresh
    => /\ outcome = "CLASSIFY"
       /\ classifier_calls = 1 \/ pc = "classify"
       /\ Ended
          => /\ write_calls = 1
             /\ RecordIntact
             /\ Cardinality({i \in 1..Len(Rows) : Rows[i][1] = attempts[2].today}) = 1

\* The rows of the table under the dateKey of the attempt that passed.
WrittenRows == {i \in 1..Len(Rows) : Rows[i][1] = LastAttempt.today}

\* C19: a written record is keyed by the system date observed on the attempt
\* that passed the gate, which is the publish dateKey extracted on that
\* attempt; the text given to the classifier, the contentHash and the raw
\* publish string come from that attempt's fetch, and after a retry nothing
\* of the first fetch reaches the classifier or the record.
C19_RecordOfPassingAttempt ==
    /\ pc \in {"classify", "normalize", "write", "notify"}
       => /\ LastAttempt.today = LastAttempt.publish
          /\ LastAttempt.publish = extract_publish_date(LastAttempt.page)
          /\ article = LastAttempt.page.body
          /\ Len(attempts) = 2 /\ attempts[1].page # attempts[2].page
             => article # attempts[1].page.body
    /\ write_calls = 1
       => /\ WrittenRows # {}
          /\ \A i \in WrittenRows :
               /\ Rows[i][1] = extract_publish_date(LastAttempt.page)
               /\ Rows[i][2] = extract_raw_publish(LastAttempt.page)
               /\ Rows[i][6] = "md5(" \o LastAttempt.page.body \o ")"
               /\ Len(attempts) = 2 /\ attempts[1].page # attempts[2].page
                  => Rows[i][6] # "md5(" \o attempts[1].page.body \o ")"

C19_Witness ==
    /\ write_calls = 1
    /\ Len(attempts) = 2
    /\ attempts[1].page # attempts[2].page
    /\ \E i \in WrittenRows :
         Rows[i][6] = "md5(" \o attempts[2].page.body \o ")"

\* C20: within one invocation write_log_csv is called at most once and only
\* after the gate passed and the classifier returned; send_push_notification
\* is called only after write_log_csv has completed; on an ABORT path nothing
\* is classified, written or notified.
C20_ClassifyWriteNotify ==
    /\ write_calls <= 1
    /\ classifier_calls <= 1
    /\ classifier_calls = 1 => outcome = "CLASSIFY"
    /\ write_calls = 1
       => /\ outcome = "CLASSIFY"
          /\ classifier_calls = 1
          /\ ~classifier_raised
          /\ pc \in {"notify", "done", "crashed"}
    /\ pc = "notify" => write_calls = 1
    /\ notify_result # "none" => write_calls = 1 /\ Ended
    /\ outcome = "ABORT"
       => /\ notify_result = "none"
          /\ write_calls = 0
          /\ classifier_calls = 0
          /\ pc = "done"

C20_Witness ==
    /\ pc = "done"
    /\ outcome = "CLASSIFY"
    /\ classifier_calls = 1
    /\ write_calls = 1
    /\ notify_result = "sent"
    /\ RecordIntact

====
